---- MODULE Spec2Model ----
(***************************************************************************)
(* Model of src/proxy.c: a multithreaded caching HTTP proxy.                *)
(*                                                                         *)
(*   main      accepts connections and hands each descriptor to the        *)
(*             bounded buffer sbuf (sbuf_insert).                           *)
(*   thread    NTHREADS workers: sbuf_remove, doit, Close, forever.        *)
(*   doit      request line, method gate, cache_find, origin fetch with    *)
(*             line-by-line staging, cache_insert.                         *)
(*   cache     doubly linked list of cache_block_t guarded by the          *)
(*             readers/writer semaphores cache.mutex / cache.w / readcnt.  *)
(*                                                                         *)
(* Granularity. A P() that can block starts a step. Code that runs from the *)
(* P to the V of sbuf.mutex or cache.mutex without blocking in between is   *)
(* one step. Code that touches only the locals of its thread (socket reads  *)
(* and writes, the method gate, the staging test) belongs to the step       *)
(* before it. Inside cache_insert, which holds cache.w throughout, one      *)
(* iteration of the eviction loop is a step and the linking of the new      *)
(* block together with V(&cache.w) is a step: no other thread reads head,   *)
(* tail, current_size or the links without holding cache.w, and the one     *)
(* unlocked read of the program (doit reading cached->content) sees only    *)
(* whether a block is allocated and what bytes it holds.                    *)
(*                                                                         *)
(* Sizes are counted in model bytes: the five #define values of the source *)
(* are scaled down (their order MAXLINE - 1 <= MAX_OBJECT_SIZE <           *)
(* MAX_CACHE_SIZE is kept) so that eviction, oversize responses and a full *)
(* buffer all happen within a few requests.                                *)
(*                                                                         *)
(* Specifications. Spec is the program serving MaxConn connections.        *)
(* CacheSpec is one caller of cache_find and cache_insert with arbitrary   *)
(* arguments. StreamSpec is the program with fewer connections and longer  *)
(* responses. ParseSpec is parse_uri as a function of its argument.        *)
(* FairSpec is the program serving connections for ever, under fair        *)
(* scheduling.                                                             *)
(***************************************************************************)
EXTENDS Integers, Sequences, FiniteSets, TLC

\* ---- program constants (src/proxy.c:18-22), scaled -----------------------
MAX_CACHE_SIZE == 3
MAX_OBJECT_SIZE == 2
MAXLINE == 3
NTHREADS == 2
SBUFSIZE == 2

\* ---- bounds of the model -------------------------------------------------
\* connections accepted by main in one run
MaxConn == 3
\* lines an origin sends before EOF
MaxLines == 2
\* the same two bounds for the run of a single fetch (StreamSpec)
MaxStreamConn == 1
MaxStreamLines == 3
\* pieces of a request uri handed to parse_uri (ParseSpec)
MaxUriLen == 4

Threads == 1 .. NTHREADS
\* heap addresses of cache_block_t objects; each request allocates at most one
Addr == 1 .. MaxConn
NULL == 0
NoUri == "-"
NoMethod == "-"
Uris == {"u1", "u2"}
Methods == {"GET", "get", "POST"}
\* Rio_readlineb(rp, buf, MAXLINE) returns at most MAXLINE - 1 bytes, 0 at EOF
LineLens == 1 .. (MAXLINE - 1)
\* what a read of released memory may yield besides the stale bytes
Garbage == <<0>>

VARIABLES
    \* sbuf_t sbuf
    buf, front, rear, sbuf_mutex, slots, items,
    \* main: position, local connfd, number of connections accepted
    mpc, mconnfd, accepted,
    \* history of the buffer: descriptors passed to sbuf_insert / returned by
    \* sbuf_remove in the order the removals took effect; slots written and
    \* not yet removed; how often Close was called on each client descriptor
    inserted, removed, full, closes,
    \* cache_t cache and the heap of cache_block_t
    head, tail, current_size, cache_mutex, w, readcnt,
    blk, allocated,
    \* history of the cache: the live blocks in the order they were inserted,
    \* and whether any block has been released
    order, evicted,
    \* workers: position and locals of thread/doit/cache_find/cache_insert
    pc, th

qvars == <<buf, front, rear, sbuf_mutex, slots, items>>
mvars == <<mpc, mconnfd, accepted>>
hvars == <<inserted, removed, full, closes>>
lvars == <<head, tail, current_size>>
svars == <<cache_mutex, w, readcnt>>
bvars == <<blk, allocated, order, evicted>>
cvars == <<lvars, svars, bvars>>
vars == <<qvars, mvars, hvars, cvars, pc, th>>

\* ---- helpers ---------------------------------------------------------------
RECURSIVE SumSeq(_)
SumSeq(s) == IF s = <<>> THEN 0 ELSE Head(s) + SumSeq(Tail(s))

\* the sequences over S of length at most k
RECURSIVE SeqsUpTo(_, _)
SeqsUpTo(S, k) ==
    IF k = 0 THEN {<<>>}
    ELSE LET shorter == SeqsUpTo(S, k - 1) IN
         shorter \cup {Append(q, x) : q \in shorter, x \in S}

\* strcasecmp(method, "GET") == 0
Lower(m) == IF m = "GET" THEN "get" ELSE m

\* a gate that lets every method through
IsGetAny(m) == TRUE

IsGet(m) == Lower(m) = Lower("GET")

EmptyBlock == [uri |-> NoUri, content |-> <<>>, content_size |-> 0,
               prev |-> NULL, next |-> NULL]

\* locals of a worker between two requests
\* connfd .. cache_size are the locals of thread, doit and cache_find;
\* the rest records the request for the properties: rcvd and sent are
\* the lines read from the origin and the chunks written to the client,
\* hitBody the body the probe matched, oversize whether the origin sent more
\* than MAX_OBJECT_SIZE bytes, called whether cache_insert was called;
\* hostname, pathname and port are written by parse_uri only;
\* method is the method token up to the case strcasecmp ignores.
IdleLocals == [connfd |-> 0, method |-> NoMethod, uri |-> NoUri, block |-> NULL,
               cached |-> NULL, serverfd |-> 0, cache_buf |-> <<>>,
               cache_size |-> 0,
               hostname |-> <<>>, pathname |-> <<>>, port |-> 0,
               rcvd |-> <<>>, sent |-> <<>>, hitBody |-> <<>>,
               outcome |-> "none", oversize |-> FALSE, called |-> FALSE]

\* Sem_init(&sp->slots, 0, n): an off-by-one initial value
SlotsInitOneMore == SBUFSIZE + 1

\* Sem_init(&sp->slots, 0, n)
SlotsInit == SBUFSIZE

\* ---- initial state: cache_init, sbuf_init, threads created ----------------
Init ==
    /\ buf = [i \in 0 .. (SBUFSIZE - 1) |-> 0]
    /\ front = 0 /\ rear = 0
    /\ sbuf_mutex = 1 /\ slots = SlotsInit /\ items = 0
    /\ mpc = "accept" /\ mconnfd = 0 /\ accepted = 0
    /\ inserted = <<>> /\ removed = <<>>
    /\ full = [i \in 0 .. (SBUFSIZE - 1) |-> FALSE]
    /\ closes = [fd \in 0 .. MaxConn |-> 0]
    /\ head = NULL /\ tail = NULL /\ current_size = 0
    /\ cache_mutex = 1 /\ w = 1 /\ readcnt = 0
    /\ blk = [a \in Addr |-> EmptyBlock]
    /\ allocated = [a \in Addr |-> FALSE]
    /\ order = <<>> /\ evicted = FALSE
    /\ pc = [t \in Threads |-> "sr_items"]
    /\ th = [t \in Threads |-> IdleLocals]

\* ---- main: accept loop and sbuf_insert ------------------------------------
\* connfd = Accept(...), the first time round the loop; the k-th accepted
\* connection is descriptor k
MainAccept ==
    /\ mpc = "accept"
    /\ accepted = 0
    /\ accepted' = 1
    /\ mconnfd' = 1
    /\ inserted' = Append(inserted, 1)
    /\ mpc' = "si_slots"
    /\ UNCHANGED <<qvars, removed, full, closes, cvars, pc, th>>

\* P(&sp->slots)
SbufInsertSlots ==
    /\ mpc = "si_slots"
    /\ slots > 0
    /\ slots' = slots - 1
    /\ mpc' = "si_write"
    /\ UNCHANGED <<buf, front, rear, sbuf_mutex, items, mconnfd, accepted,
                   hvars, cvars, pc, th>>

\* the slot (++sp->rear) % sp->n
RearSlot == (rear + 1) % SBUFSIZE

\* P(&sp->mutex); sp->buf[(++sp->rear)%(sp->n)] = item; V(&sp->mutex)
SbufInsertWrite ==
    /\ mpc = "si_write"
    /\ sbuf_mutex > 0
    /\ rear' = rear + 1
    /\ buf' = [buf EXCEPT ![RearSlot] = mconnfd]
    /\ full' = [full EXCEPT ![RearSlot] = TRUE]
    /\ mpc' = "si_items"
    /\ UNCHANGED <<front, sbuf_mutex, slots, items, mconnfd, accepted, inserted,
                   removed, closes, cvars, pc, th>>

\* V(&sp->items); back to the head of the loop, where Accept returns the
\* next connection (none arrives after the most-th)
InsertItems(most) ==
    /\ mpc = "si_items"
    /\ items' = items + 1
    /\ IF accepted < most
       THEN /\ accepted' = accepted + 1
            /\ mconnfd' = accepted + 1
            /\ inserted' = Append(inserted, accepted + 1)
            /\ mpc' = "si_slots"
       ELSE /\ mpc' = "accept"
            /\ mconnfd' = 0
            /\ UNCHANGED <<accepted, inserted>>
    /\ UNCHANGED <<buf, front, rear, sbuf_mutex, slots, removed, full, closes,
                   cvars, pc, th>>

SbufInsertItems == InsertItems(MaxConn)

\* ---- worker: sbuf_remove ---------------------------------------------------
\* P(&sp->items)
SbufRemoveItems(t) ==
    /\ pc[t] = "sr_items"
    /\ items > 0
    /\ items' = items - 1
    /\ pc' = [pc EXCEPT ![t] = "sr_read"]
    /\ UNCHANGED <<buf, front, rear, sbuf_mutex, slots, mvars, hvars, cvars, th>>

\* the slot of a post-increment, (sp->front++) % sp->n
FrontSlotPostIncrement == front % SBUFSIZE

\* the slot (++sp->front) % sp->n
FrontSlot == (front + 1) % SBUFSIZE

\* P(&sp->mutex); item = sp->buf[(++sp->front)%(sp->n)]; V(&sp->mutex)
SbufRemoveRead(t) ==
    /\ pc[t] = "sr_read"
    /\ sbuf_mutex > 0
    /\ front' = front + 1
    /\ th' = [th EXCEPT ![t].connfd = buf[FrontSlot]]
    /\ removed' = Append(removed, buf[FrontSlot])
    /\ full' = [full EXCEPT ![FrontSlot] = FALSE]
    /\ pc' = [pc EXCEPT ![t] = "sr_slots"]
    /\ UNCHANGED <<buf, rear, sbuf_mutex, slots, items, mvars, inserted, closes,
                   cvars>>

\* ---- worker: doit ----------------------------------------------------------
\* the bytes clienterror writes, as one chunk tagged with the status
ErrorPage(errnum) == <<0 - errnum>>

\* a return path that forgets Close(serverfd)
LeakedServer(l) == l

\* Close(serverfd)
ClosedServer(l) == [l EXCEPT !.serverfd = 0]

\* the locals of doit are dead once it returns; the record of the request
\* stays, and so does a descriptor that was left open
Returned(l, how) ==
    [IdleLocals EXCEPT !.connfd = l.connfd, !.method = l.method,
                       !.serverfd = l.serverfd,
                       !.sent = l.sent, !.hitBody = l.hitBody,
                       !.oversize = l.oversize, !.called = l.called,
                       !.outcome = how]

\* V(&sp->slots); return item; doit(connfd) starts: Rio_readlineb + sscanf of
\* the request line, then the method gate (clienterror 501 and return)
SbufRemoveSlots(t) ==
    /\ pc[t] = "sr_slots"
    /\ slots' = slots + 1
    /\ \E m \in Methods, u \in Uris :
          IF IsGet(m)
          THEN /\ th' = [th EXCEPT ![t].method = Lower(m), ![t].uri = u]
               /\ pc' = [pc EXCEPT ![t] = "cf_lock"]
          ELSE /\ th' = [th EXCEPT ![t] =
                          Returned([th[t] EXCEPT !.method = Lower(m),
                                                 !.sent = ErrorPage(501)], "501")]
               /\ pc' = [pc EXCEPT ![t] = "close_conn"]
    /\ UNCHANGED <<buf, front, rear, sbuf_mutex, items, mvars, hvars, cvars>>

\* ---- cache_find --------------------------------------------------------------
\* a reader that never takes the writer lock
FirstReaderNever(cnt) == FALSE

\* the first reader takes the writer lock
FirstReader(cnt) == cnt = 1

\* P(&cache.mutex); cache.readcnt++; then, holding cache.mutex, the first
\* reader goes on to P(&cache.w), any other reader does V(&cache.mutex)
CacheFindEnter(t) ==
    /\ pc[t] = "cf_lock"
    /\ cache_mutex > 0
    /\ readcnt' = readcnt + 1
    /\ IF FirstReader(readcnt + 1)
       THEN /\ pc' = [pc EXCEPT ![t] = "cf_pw"]
            /\ cache_mutex' = cache_mutex - 1
       ELSE /\ pc' = [pc EXCEPT ![t] = "cf_scan"]
            /\ UNCHANGED cache_mutex
    /\ UNCHANGED <<qvars, mvars, hvars, lvars, w, bvars, th>>

\* P(&cache.w); V(&cache.mutex)
CacheFindPw(t) ==
    /\ pc[t] = "cf_pw"
    /\ w > 0
    /\ w' = w - 1
    /\ cache_mutex' = cache_mutex + 1
    /\ pc' = [pc EXCEPT ![t] = "cf_scan"]
    /\ UNCHANGED <<qvars, mvars, hvars, lvars, readcnt, bvars, th>>

\* block = cache.head; while (block) { if (strcmp(...) == 0) break; block = block->next; }
\* fuel stops the walk of a list that is not well formed
RECURSIVE FindFrom(_, _, _)
FindFrom(b, uri, fuel) ==
    IF b = NULL \/ fuel = 0 THEN NULL
    ELSE IF blk[b].uri = uri THEN b
    ELSE FindFrom(blk[b].next, uri, fuel - 1)

\* a probe that never finds anything
FindNothing(uri) == NULL

\* a probe that walks from the tail and so returns the oldest match
RECURSIVE FindBackFrom(_, _, _)
FindBackFrom(b, uri, fuel) ==
    IF b = NULL \/ fuel = 0 THEN NULL
    ELSE IF blk[b].uri = uri THEN b
    ELSE FindBackFrom(blk[b].prev, uri, fuel - 1)
FindOldest(uri) == FindBackFrom(tail, uri, MaxConn + 1)

Find(uri) == FindFrom(head, uri, MaxConn + 1)

\* a traversal that moves the entry it matched to the head of the list
ScanMoveToFront(t, b) ==
    IF b = NULL \/ b = head
    THEN UNCHANGED <<lvars, bvars>>
    ELSE LET p == blk[b].prev
             n == blk[b].next
             b1 == [blk EXCEPT ![p].next = n]
             b2 == IF n # NULL THEN [b1 EXCEPT ![n].prev = p] ELSE b1
             b3 == [b2 EXCEPT ![b].prev = NULL, ![b].next = head, ![head].prev = b]
         IN /\ blk' = b3
            /\ head' = b
            /\ tail' = IF tail = b THEN p ELSE tail
            /\ UNCHANGED <<current_size, allocated, order, evicted>>

\* what the traversal does to the list: nothing
ScanEffect(t, b) == UNCHANGED <<lvars, bvars>>

CacheFindScan(t) ==
    /\ pc[t] = "cf_scan"
    /\ LET b == Find(th[t].uri) IN
          /\ th' = [th EXCEPT ![t].block = b,
                              ![t].hitBody = IF b = NULL THEN <<>> ELSE blk[b].content]
          /\ ScanEffect(t, b)
    /\ pc' = [pc EXCEPT ![t] = "cf_unlock"]
    /\ UNCHANGED <<qvars, mvars, hvars, svars>>

\* a last reader that keeps the writer lock
LastReaderNever(cnt) == FALSE

\* the last reader releases the writer lock
LastReader(cnt) == cnt = 0

\* P(&cache.mutex); cache.readcnt--; if (cache.readcnt == 0) V(&cache.w);
\* V(&cache.mutex); return block
CacheFindLeave(t) ==
    /\ pc[t] = "cf_unlock"
    /\ cache_mutex > 0
    /\ readcnt' = readcnt - 1
    /\ w' = IF LastReader(readcnt - 1) THEN w + 1 ELSE w
    /\ th' = [th EXCEPT ![t].cached = th[t].block, ![t].block = NULL]
    /\ pc' = [pc EXCEPT ![t] = "doit_hit"]
    /\ UNCHANGED <<qvars, mvars, hvars, lvars, cache_mutex, bvars>>

\* ---- doit after the probe ----------------------------------------------------
\* what reading cached->content can yield: the block's bytes while it is
\* allocated (to whichever entry owns the address now); after Free the read is
\* undefined: the stale bytes or anything else
ReadContent(b) ==
    IF allocated[b] THEN {blk[b].content} ELSE {blk[b].content, Garbage}

\* if (cached) { Rio_writen(connfd, cached->content, cached->content_size); return; }
\* on a miss: parse_uri; Open_clientfd; on failure the 503 page; else
\* build_requesthdrs and the request written to the origin
DoitHit(t) ==
    /\ pc[t] = "doit_hit"
    /\ IF th[t].cached # NULL
       THEN /\ \E bytes \in ReadContent(th[t].cached) :
                  th' = [th EXCEPT ![t] =
                           Returned([th[t] EXCEPT !.sent = bytes], "hit")]
            /\ pc' = [pc EXCEPT ![t] = "close_conn"]
       ELSE \E ok \in BOOLEAN :
               IF ok
               THEN /\ th' = [th EXCEPT ![t].serverfd = 1]
                    /\ pc' = [pc EXCEPT ![t] = "doit_stream"]
               ELSE /\ th' = [th EXCEPT ![t] =
                               Returned([th[t] EXCEPT !.sent = ErrorPage(503)], "503")]
                    /\ pc' = [pc EXCEPT ![t] = "close_conn"]
    /\ UNCHANGED <<qvars, mvars, hvars, cvars>>

\* if (cache_size + n <= MAX_OBJECT_SIZE)
Fits(size, n) == size + n <= MAX_OBJECT_SIZE

\* a write that drops the last byte of a line longer than one byte
ForwardedShort(n) == <<IF n > 1 THEN n - 1 ELSE n>>

\* Rio_writen(connfd, buf, n): what the client is sent of a line of n bytes
Forwarded(n) == <<n>>

\* one iteration of the streaming loop: a line of n > 0 bytes is read,
\* written to the client and staged when it fits (the origin sends at most
\* most lines)
StreamLine(t, most) ==
    /\ pc[t] = "doit_stream"
    /\ Len(th[t].rcvd) < most
    /\ \E n \in LineLens :
          th' = [th EXCEPT
                   ![t].rcvd = Append(@, n),
                   ![t].sent = @ \o Forwarded(n),
                   ![t].cache_buf = IF Fits(th[t].cache_size, n) THEN Append(@, n) ELSE @,
                   ![t].cache_size = IF Fits(th[t].cache_size, n) THEN @ + n ELSE @]
    /\ UNCHANGED <<qvars, mvars, hvars, cvars, pc>>

DoitStreamLine(t) == StreamLine(t, MaxLines)

\* if (cache_size <= MAX_OBJECT_SIZE)
Admit(size) == size <= MAX_OBJECT_SIZE

\* ---- cache_insert(uri, cache_buf, cache_size) --------------------------------
\* a cache_insert without the size test
TooLargeNever(size) == FALSE

\* a size test that lets one byte too many through
TooLargeOffByOne(size) == size > MAX_OBJECT_SIZE + 1

\* if (content_size > MAX_OBJECT_SIZE) return;
TooLarge(size) == size > MAX_OBJECT_SIZE

\* Rio_readlineb returns 0 and the loop ends;
\* if (cache_size <= MAX_OBJECT_SIZE) cache_insert(uri, cache_buf, cache_size);
\* cache_insert returns at once when content_size > MAX_OBJECT_SIZE; without
\* an insert doit goes on to Close(serverfd) and returns
DoitAdmit(t) ==
    /\ pc[t] = "doit_stream"
    /\ LET l == [th[t] EXCEPT !.oversize = SumSeq(th[t].rcvd) > MAX_OBJECT_SIZE,
                              !.rcvd = <<>>, !.sent = <<>>] IN
       IF Admit(th[t].cache_size)
       THEN IF TooLarge(th[t].cache_size)
            THEN /\ pc' = [pc EXCEPT ![t] = "close_conn"]
                 /\ th' = [th EXCEPT ![t] =
                            Returned(ClosedServer([l EXCEPT !.called = TRUE]), "fetched")]
            ELSE /\ pc' = [pc EXCEPT ![t] = "ci_pw"]
                 /\ th' = [th EXCEPT ![t] = [l EXCEPT !.called = TRUE]]
       ELSE /\ pc' = [pc EXCEPT ![t] = "close_conn"]
            /\ th' = [th EXCEPT ![t] = Returned(ClosedServer(l), "fetched")]
    /\ UNCHANGED <<qvars, mvars, hvars, cvars>>

\* P(&cache.w)
CacheInsertLock(t) ==
    /\ pc[t] = "ci_pw"
    /\ w > 0
    /\ w' = w - 1
    /\ pc' = [pc EXCEPT ![t] = "ci_loop"]
    /\ UNCHANGED <<qvars, mvars, hvars, lvars, cache_mutex, readcnt, bvars, th>>

\* a loop test that forgets the incoming entry
EvictCondNoSize(size) == current_size > MAX_CACHE_SIZE /\ tail # NULL

\* while (cache.current_size + content_size > MAX_CACHE_SIZE && cache.tail)
EvictCond(size) == current_size + size > MAX_CACHE_SIZE /\ tail # NULL

\* eviction from the wrong end
VictimHead == head

\* cache_block_t *temp = cache.tail
Victim == tail

\* the heap after: if (temp->prev) temp->prev->next = NULL;
Unlinked(temp) ==
    IF blk[temp].prev # NULL THEN [blk EXCEPT ![blk[temp].prev].next = NULL] ELSE blk

\* the heap b after Free(temp->uri); Free(temp->content); Free(temp): nothing
\* reads the uri or the links of a released block again, the bytes of its
\* content stay where they are until the address is handed out again
Freed(b, temp) == [b EXCEPT ![temp].uri = NoUri, ![temp].prev = NULL, ![temp].next = NULL]

\* s without its entries equal to a
Without(s, a) == SelectSeq(s, LAMBDA x : x # a)

\* one iteration of the eviction loop (lines 101-115), run holding cache.w:
\* temp = cache.tail; cache.current_size -= temp->content_size; unlink;
\* Free(temp->uri); Free(temp->content); Free(temp).
CacheInsertEvict(t) ==
    /\ pc[t] = "ci_loop"
    /\ EvictCond(th[t].cache_size)
    /\ LET temp == Victim IN
          /\ current_size' = current_size - blk[temp].content_size
          /\ blk' = Freed(Unlinked(temp), temp)
          /\ tail' = blk[temp].prev
          /\ head' = IF head = temp THEN NULL ELSE head
          /\ allocated' = [allocated EXCEPT ![temp] = FALSE]
          /\ order' = Without(order, temp)
    /\ evicted' = TRUE
    /\ UNCHANGED <<qvars, mvars, hvars, svars, pc, th>>

\* Malloc: the lowest address not in use
Malloc == CHOOSE a \in Addr : ~allocated[a] /\ \A b \in Addr : ~allocated[b] => a <= b

\* a new block whose content is never copied in
NewBlockNoCopy(nb, uri, content, size) ==
    [blk EXCEPT ![nb].uri = uri, ![nb].content = <<>>, ![nb].content_size = size]

\* lines 118-122: the new block and its copies of uri and content
NewBlock(nb, uri, content, size) ==
    [blk EXCEPT ![nb].uri = uri, ![nb].content = content, ![nb].content_size = size]

\* a link that forgets cache.head->prev = new_block
LinkBlocksNoPrev(b, nb) == [b EXCEPT ![nb].next = head, ![nb].prev = NULL]

\* the heap b after new_block->next = cache.head; new_block->prev = NULL;
\* if (cache.head) cache.head->prev = new_block;
LinkBlocks(b, nb) ==
    LET b1 == [b EXCEPT ![nb].next = head, ![nb].prev = NULL] IN
    IF head # NULL THEN [b1 EXCEPT ![head].prev = nb] ELSE b1

\* the loop test fails; lines 117-135, the first of them holding cache.w: the
\* new block is made, becomes the head (and the tail of an empty list),
\* cache.current_size += content_size, V(&cache.w); cache_insert returns;
\* Close(serverfd); doit returns
CacheInsertLink(t) ==
    /\ pc[t] = "ci_loop"
    /\ ~EvictCond(th[t].cache_size)
    /\ \E a \in Addr : ~allocated[a]
    /\ LET nb == Malloc IN
          /\ allocated' = [allocated EXCEPT ![nb] = TRUE]
          /\ blk' = LinkBlocks(NewBlock(nb, th[t].uri, th[t].cache_buf,
                                        th[t].cache_size), nb)
          /\ head' = nb
          /\ tail' = IF tail = NULL THEN nb ELSE tail
          /\ order' = Append(order, nb)
    /\ current_size' = current_size + th[t].cache_size
    /\ w' = w + 1
    /\ th' = [th EXCEPT ![t] = Returned(ClosedServer(th[t]), "fetched")]
    /\ pc' = [pc EXCEPT ![t] = "close_conn"]
    /\ UNCHANGED <<qvars, mvars, hvars, cache_mutex, readcnt, evicted>>

\* thread: Close(connfd); back to sbuf_remove
ThreadClose(t) ==
    /\ pc[t] = "close_conn"
    /\ closes' = [closes EXCEPT ![th[t].connfd] = @ + 1]
    /\ th' = [th EXCEPT ![t] = IdleLocals]
    /\ pc' = [pc EXCEPT ![t] = "sr_items"]
    /\ UNCHANGED <<qvars, mvars, inserted, removed, full, cvars>>

\* ---- the system -----------------------------------------------------------------
Next ==
    \/ MainAccept
    \/ SbufInsertSlots
    \/ SbufInsertWrite
    \/ SbufInsertItems
    \/ \E t \in Threads : SbufRemoveItems(t)
    \/ \E t \in Threads : SbufRemoveRead(t)
    \/ \E t \in Threads : SbufRemoveSlots(t)
    \/ \E t \in Threads : CacheFindEnter(t)
    \/ \E t \in Threads : CacheFindPw(t)
    \/ \E t \in Threads : CacheFindScan(t)
    \/ \E t \in Threads : CacheFindLeave(t)
    \/ \E t \in Threads : DoitHit(t)
    \/ \E t \in Threads : DoitStreamLine(t)
    \/ \E t \in Threads : DoitAdmit(t)
    \/ \E t \in Threads : CacheInsertLock(t)
    \/ \E t \in Threads : CacheInsertEvict(t)
    \/ \E t \in Threads : CacheInsertLink(t)
    \/ \E t \in Threads : ThreadClose(t)

Spec == Init /\ [][Next]_vars

\* ---- a single fetch with a longer response --------------------------------------
\* The program from its initial state, with MaxStreamConn connections
\* accepted in all and origins that send up to MaxStreamLines lines: enough
\* lines for a line to be skipped by the staging test and a later one to fit.
SbufInsertItemsFew == InsertItems(MaxStreamConn)
DoitStreamLineLong(t) == StreamLine(t, MaxStreamLines)

StreamNext ==
    \/ MainAccept
    \/ SbufInsertSlots
    \/ SbufInsertWrite
    \/ SbufInsertItemsFew
    \/ \E t \in Threads : SbufRemoveItems(t)
    \/ \E t \in Threads : SbufRemoveRead(t)
    \/ \E t \in Threads : SbufRemoveSlots(t)
    \/ \E t \in Threads : CacheFindEnter(t)
    \/ \E t \in Threads : CacheFindPw(t)
    \/ \E t \in Threads : CacheFindScan(t)
    \/ \E t \in Threads : CacheFindLeave(t)
    \/ \E t \in Threads : DoitHit(t)
    \/ \E t \in Threads : DoitStreamLineLong(t)
    \/ \E t \in Threads : DoitAdmit(t)
    \/ \E t \in Threads : CacheInsertLock(t)
    \/ \E t \in Threads : CacheInsertLink(t)
    \/ \E t \in Threads : ThreadClose(t)

StreamSpec == Init /\ [][StreamNext]_vars

\* ---- the cache on its own: callers of cache_find and cache_insert -------------
\* The contract of the two cache operations is stated for every call, also for
\* calls doit never makes (a length above MAX_OBJECT_SIZE). Here one caller
\* issues cache_find(u) and cache_insert(u, B, n) with any arguments, one call
\* after the other; the steps inside the two functions are the actions above.
\* (Calls that overlap are those of the workers, in Spec.)
Callers == {1}

\* the bodies a caller passes: up to MaxLines chunks, 0 .. MaxLines * (MAXLINE - 1)
\* bytes in all
Bodies == SeqsUpTo(LineLens, MaxLines)

\* cache_init() has run; no caller is inside a call
CacheInit ==
    /\ buf = [i \in 0 .. (SBUFSIZE - 1) |-> 0]
    /\ front = 0 /\ rear = 0
    /\ sbuf_mutex = 1 /\ slots = SlotsInit /\ items = 0
    /\ mpc = "accept" /\ mconnfd = 0 /\ accepted = 0
    /\ inserted = <<>> /\ removed = <<>>
    /\ full = [i \in 0 .. (SBUFSIZE - 1) |-> FALSE]
    /\ closes = [fd \in 0 .. MaxConn |-> 0]
    /\ head = NULL /\ tail = NULL /\ current_size = 0
    /\ cache_mutex = 1 /\ w = 1 /\ readcnt = 0
    /\ blk = [a \in Addr |-> EmptyBlock]
    /\ allocated = [a \in Addr |-> FALSE]
    /\ order = <<>> /\ evicted = FALSE
    /\ pc = [t \in Threads |-> "call"]
    /\ th = [t \in Threads |-> IdleLocals]

\* a caller enters cache_find(uri)
CallFind(t) ==
    /\ pc[t] = "call"
    /\ \E u \in Uris : th' = [th EXCEPT ![t].uri = u]
    /\ pc' = [pc EXCEPT ![t] = "cf_lock"]
    /\ UNCHANGED <<qvars, mvars, hvars, cvars>>

\* a caller enters cache_insert(uri, content, content_size):
\* if (content_size > MAX_OBJECT_SIZE) return; else on to P(&cache.w)
CallInsert(t) ==
    /\ pc[t] = "call"
    /\ \E u \in Uris, B \in Bodies :
          LET l == [th[t] EXCEPT !.uri = u, !.cache_buf = B,
                                 !.cache_size = SumSeq(B), !.called = TRUE] IN
          IF TooLarge(SumSeq(B))
          THEN /\ th' = [th EXCEPT ![t] =
                          Returned([l EXCEPT !.oversize = TRUE], "ignored")]
               /\ pc' = [pc EXCEPT ![t] = "close_conn"]
          ELSE /\ th' = [th EXCEPT ![t] = l]
               /\ pc' = [pc EXCEPT ![t] = "ci_pw"]
    /\ UNCHANGED <<qvars, mvars, hvars, cvars>>

\* the call has returned (cache_find at line 90, cache_insert at line 96 or 135)
CallReturn(t) ==
    /\ pc[t] \in {"doit_hit", "close_conn"}
    /\ th' = [th EXCEPT ![t] = IdleLocals]
    /\ pc' = [pc EXCEPT ![t] = "call"]
    /\ UNCHANGED <<qvars, mvars, hvars, cvars>>

CacheNext ==
    \/ \E t \in Callers : CallFind(t)
    \/ \E t \in Callers : CallInsert(t)
    \/ \E t \in Callers : CacheFindEnter(t)
    \/ \E t \in Callers : CacheFindPw(t)
    \/ \E t \in Callers : CacheFindScan(t)
    \/ \E t \in Callers : CacheFindLeave(t)
    \/ \E t \in Callers : CacheInsertLock(t)
    \/ \E t \in Callers : CacheInsertEvict(t)
    \/ \E t \in Callers : CacheInsertLink(t)
    \/ \E t \in Callers : CallReturn(t)

CacheSpec == CacheInit /\ [][CacheNext]_vars

\* ---- parse_uri on its own ----------------------------------------------------------
\* A uri is a sequence of characters. The inputs are made of up to MaxUriLen
\* pieces: the scheme prefix in either case, a letter, a digit, ':' and '/'.
UriPieces == {<<"h", "t", "t", "p", ":", "/", "/">>,
              <<"H", "T", "T", "P", ":", "/", "/">>,
              <<"a">>, <<"8">>, <<":">>, <<"/">>}
RECURSIVE Flatten(_)
Flatten(q) == IF q = <<>> THEN <<>> ELSE Head(q) \o Flatten(Tail(q))
UriInputs == {Flatten(q) : q \in SeqsUpTo(UriPieces, MaxUriLen)}

\* tolower, on the letters of the inputs
LowerChar(c) ==
    CASE c = "H" -> "h" [] c = "T" -> "t" [] c = "P" -> "p" [] OTHER -> c

\* strncasecmp(s, pre, Len(pre)) == 0
StartsWithNoCase(s, pre) ==
    /\ Len(s) >= Len(pre)
    /\ \A i \in 1 .. Len(pre) : LowerChar(s[i]) = LowerChar(pre[i])

\* strstr(s, c) for a one-character c: the position of its first occurrence, 0
\* when there is none
Strstr(s, c) ==
    LET at == {i \in 1 .. Len(s) : s[i] = c} IN
    IF at = {} THEN 0 ELSE CHOOSE i \in at : \A j \in at : i <= j

\* the rest of s from position i on
From(s, i) == SubSeq(s, i, Len(s))

\* atoi: the value of the leading digits, 0 when there is none
DigitValue(c) == IF c = "8" THEN 8 ELSE 0
IsDigit(c) == c = "8"
RECURSIVE AtoiFrom(_, _)
AtoiFrom(s, acc) ==
    IF s = <<>> \/ ~IsDigit(Head(s)) THEN acc
    ELSE AtoiFrom(Tail(s), acc * 10 + DigitValue(Head(s)))
Atoi(s) == AtoiFrom(s, 0)

\* lines 241-244: hostbegin
HostBegin(uri) ==
    IF StartsWithNoCase(uri, <<"h", "t", "t", "p", ":", "/", "/">>)
    THEN From(uri, 8) ELSE uri

\* parse_uri(uri, hostname, pathname, &port), lines 246-270
ParseUri(uri) ==
    LET hostbegin == HostBegin(uri)
        colon == Strstr(hostbegin, ":")
        slash == Strstr(hostbegin, "/")
        pathname == IF slash # 0 THEN From(hostbegin, slash) ELSE <<"/">>
    IN IF colon # 0
       THEN [hostname |-> SubSeq(hostbegin, 1, colon - 1),
             port |-> Atoi(From(hostbegin, colon + 1)),
             pathname |-> pathname]
       ELSE IF slash = 0
            THEN [hostname |-> hostbegin, port |-> 80, pathname |-> <<"/">>]
            ELSE [hostname |-> SubSeq(hostbegin, 1, slash - 1),
                  port |-> 80, pathname |-> pathname]

\* doit is at line 199 with some uri
ParseInit ==
    /\ buf = [i \in 0 .. (SBUFSIZE - 1) |-> 0]
    /\ front = 0 /\ rear = 0
    /\ sbuf_mutex = 1 /\ slots = SlotsInit /\ items = 0
    /\ mpc = "accept" /\ mconnfd = 0 /\ accepted = 0
    /\ inserted = <<>> /\ removed = <<>>
    /\ full = [i \in 0 .. (SBUFSIZE - 1) |-> FALSE]
    /\ closes = [fd \in 0 .. MaxConn |-> 0]
    /\ head = NULL /\ tail = NULL /\ current_size = 0
    /\ cache_mutex = 1 /\ w = 1 /\ readcnt = 0
    /\ blk = [a \in Addr |-> EmptyBlock]
    /\ allocated = [a \in Addr |-> FALSE]
    /\ order = <<>> /\ evicted = FALSE
    /\ pc = [t \in Threads |-> IF t \in Callers THEN "parse" ELSE "call"]
    /\ \E u \in UriInputs :
          th = [t \in Threads |->
                  IF t \in Callers THEN [IdleLocals EXCEPT !.uri = u] ELSE IdleLocals]

\* parse_uri(uri, hostname, pathname, &port);
DoitParseUri(t) ==
    /\ pc[t] = "parse"
    /\ LET r == ParseUri(th[t].uri) IN
          th' = [th EXCEPT ![t].hostname = r.hostname,
                           ![t].pathname = r.pathname,
                           ![t].port = r.port]
    /\ pc' = [pc EXCEPT ![t] = "parsed"]
    /\ UNCHANGED <<qvars, mvars, hvars, cvars>>

ParseNext == \E t \in Callers : DoitParseUri(t)

ParseSpec == ParseInit /\ [][ParseNext]_vars

\* ---- the proxy as a server that never stops ---------------------------------------
\* Progress is a matter of runs without end, so here connections keep coming.
\* What would grow without bound is left out or folded: the histories
\* (accepted, inserted, removed, closes) stay as they are, front and rear are
\* kept modulo SBUFSIZE (the code uses them modulo sp->n only), and
\* descriptors are not told apart (what becomes of each one is the matter of
\* the safety properties of Spec). A handler is cut down to its calls into the
\* cache: a GET for the one uri SteadyUri, cache_find, and on a miss a fetch that
\* succeeds and a cache_insert of MAX_OBJECT_SIZE bytes. There is one worker
\* more than in Spec: two readers that overlap, and a writer.
Workers == 1 .. (NTHREADS + 1)
SteadyUri == "u1"
SteadyBody == <<MAX_OBJECT_SIZE>>

SteadyInit ==
    /\ buf = [i \in 0 .. (SBUFSIZE - 1) |-> 0]
    /\ front = 0 /\ rear = 0
    /\ sbuf_mutex = 1 /\ slots = SlotsInit /\ items = 0
    /\ mpc = "accept" /\ mconnfd = 0 /\ accepted = 0
    /\ inserted = <<>> /\ removed = <<>>
    /\ full = [i \in 0 .. (SBUFSIZE - 1) |-> FALSE]
    /\ closes = [fd \in 0 .. MaxConn |-> 0]
    /\ head = NULL /\ tail = NULL /\ current_size = 0
    /\ cache_mutex = 1 /\ w = 1 /\ readcnt = 0
    /\ blk = [a \in Addr |-> EmptyBlock]
    /\ allocated = [a \in Addr |-> FALSE]
    /\ order = <<>> /\ evicted = FALSE
    /\ pc = [t \in Workers |-> "sr_items"]
    /\ th = [t \in Workers |-> IdleLocals]

\* connfd = Accept(...)
SteadyAccept ==
    /\ mpc = "accept"
    /\ mconnfd' = 1
    /\ mpc' = "si_slots"
    /\ UNCHANGED <<qvars, accepted, hvars, cvars, pc, th>>

\* P(&sp->mutex); sp->buf[(++sp->rear)%(sp->n)] = item; V(&sp->mutex)
SteadyInsertWrite ==
    /\ mpc = "si_write"
    /\ sbuf_mutex > 0
    /\ rear' = RearSlot
    /\ buf' = [buf EXCEPT ![RearSlot] = mconnfd]
    /\ full' = [full EXCEPT ![RearSlot] = TRUE]
    /\ mpc' = "si_items"
    /\ UNCHANGED <<front, sbuf_mutex, slots, items, mconnfd, accepted, inserted,
                   removed, closes, cvars, pc, th>>

\* V(&sp->items); back to Accept
SteadyInsertItems ==
    /\ mpc = "si_items"
    /\ items' = items + 1
    /\ mconnfd' = 0
    /\ mpc' = "accept"
    /\ UNCHANGED <<buf, front, rear, sbuf_mutex, slots, accepted, hvars, cvars,
                   pc, th>>

\* P(&sp->mutex); item = sp->buf[(++sp->front)%(sp->n)]; V(&sp->mutex)
SteadyRemoveRead(t) ==
    /\ pc[t] = "sr_read"
    /\ sbuf_mutex > 0
    /\ front' = FrontSlot
    /\ th' = [th EXCEPT ![t].connfd = buf[FrontSlot]]
    /\ full' = [full EXCEPT ![FrontSlot] = FALSE]
    /\ pc' = [pc EXCEPT ![t] = "sr_slots"]
    /\ UNCHANGED <<buf, rear, sbuf_mutex, slots, items, mvars, inserted, removed,
                   closes, cvars>>

\* V(&sp->slots); return item; doit: the request line of a GET
SteadyRequest(t) ==
    /\ pc[t] = "sr_slots"
    /\ slots' = slots + 1
    /\ th' = [th EXCEPT ![t].method = Lower("GET"), ![t].uri = SteadyUri]
    /\ pc' = [pc EXCEPT ![t] = "cf_lock"]
    /\ UNCHANGED <<buf, front, rear, sbuf_mutex, items, mvars, hvars, cvars>>

\* doit after the probe: on a hit the body is written and doit returns; on a
\* miss the origin is reached, sends SteadyBody, and doit calls cache_insert
SteadyFetch(t) ==
    /\ pc[t] = "doit_hit"
    /\ IF th[t].cached # NULL
       THEN /\ th' = [th EXCEPT ![t] = Returned(th[t], "hit")]
            /\ pc' = [pc EXCEPT ![t] = "close_conn"]
       ELSE /\ th' = [th EXCEPT ![t].serverfd = 1,
                                ![t].cache_buf = SteadyBody,
                                ![t].cache_size = SumSeq(SteadyBody),
                                ![t].called = TRUE]
            /\ pc' = [pc EXCEPT ![t] = "ci_pw"]
    /\ UNCHANGED <<qvars, mvars, hvars, cvars>>

\* thread: Close(connfd); back to sbuf_remove
SteadyClose(t) ==
    /\ pc[t] = "close_conn"
    /\ th' = [th EXCEPT ![t] = IdleLocals]
    /\ pc' = [pc EXCEPT ![t] = "sr_items"]
    /\ UNCHANGED <<qvars, mvars, hvars, cvars>>

\* the steps of main, and those of worker t
MainStep ==
    \/ SteadyAccept
    \/ SbufInsertSlots
    \/ SteadyInsertWrite
    \/ SteadyInsertItems
WorkerStep(t) ==
    \/ SbufRemoveItems(t)
    \/ SteadyRemoveRead(t)
    \/ SteadyRequest(t)
    \/ CacheFindEnter(t)
    \/ CacheFindPw(t)
    \/ CacheFindScan(t)
    \/ CacheFindLeave(t)
    \/ SteadyFetch(t)
    \/ CacheInsertLock(t)
    \/ CacheInsertEvict(t)
    \/ CacheInsertLink(t)
    \/ SteadyClose(t)

SteadyNext ==
    \/ SteadyAccept
    \/ SbufInsertSlots
    \/ SteadyInsertWrite
    \/ SteadyInsertItems
    \/ \E t \in Workers : SbufRemoveItems(t)
    \/ \E t \in Workers : SteadyRemoveRead(t)
    \/ \E t \in Workers : SteadyRequest(t)
    \/ \E t \in Workers : CacheFindEnter(t)
    \/ \E t \in Workers : CacheFindPw(t)
    \/ \E t \in Workers : CacheFindScan(t)
    \/ \E t \in Workers : CacheFindLeave(t)
    \/ \E t \in Workers : SteadyFetch(t)
    \/ \E t \in Workers : CacheInsertLock(t)
    \/ \E t \in Workers : CacheInsertEvict(t)
    \/ \E t \in Workers : CacheInsertLink(t)
    \/ \E t \in Workers : SteadyClose(t)

\* Fair scheduling: every thread keeps being run. main is the only thread
\* that takes slots, so its P(&sp->slots), once it can succeed, can succeed
\* until main runs: weak fairness says all there is to say. A worker's P on
\* items, cache.mutex or cache.w competes with the other workers, and the
\* semaphores are taken to be fair to the threads waiting on them: a worker
\* whose P could succeed again and again does get the semaphore in the end
\* (strong fairness).
Fairness ==
    /\ WF_vars(MainStep)
    /\ \A t \in Workers : SF_vars(WorkerStep(t))

FairSpec == SteadyInit /\ [][SteadyNext]_vars /\ Fairness

\* ---- the cache list as the properties see it -------------------------------
\* the blocks met walking next from b
RECURSIVE WalkFrom(_, _)
WalkFrom(b, fuel) ==
    IF b = NULL \/ fuel = 0 THEN <<>> ELSE <<b>> \o WalkFrom(blk[b].next, fuel - 1)

ListSeq == WalkFrom(head, MaxConn + 1)
Linked == {ListSeq[i] : i \in 1 .. Len(ListSeq)}
Live == {a \in Addr : allocated[a]}

RECURSIVE SumSizes(_)
SumSizes(q) == IF q = <<>> THEN 0 ELSE blk[Head(q)].content_size + SumSizes(Tail(q))

\* a cache_insert between its P(&cache.w) and its V(&cache.w)
Writers == {t \in Threads : pc[t] = "ci_loop"}
\* a cache_find between taking and giving back its share of cache.w
Readers == {t \in Threads : pc[t] \in {"cf_scan", "cf_unlock"}}
\* some block has been released by an eviction
SomeEvicted == evicted

\* ---- C1 ---------------------------------------------------------------------
\* C1: whenever no cache_insert is inside its critical section, the sum of
\* content_size over the entries linked in the cache list is at most
\* MAX_CACHE_SIZE.
C1_SizeWithinBudget == Writers = {} => SumSizes(ListSeq) <= MAX_CACHE_SIZE

\* an insert has evicted and returned, and the budget is used in full
C1_Witness ==
    /\ Writers = {}
    /\ SomeEvicted
    /\ SumSizes(ListSeq) = MAX_CACHE_SIZE

\* ---- C2 ---------------------------------------------------------------------
\* C2: on a cache hit the handler reads the body of an entry that is still
\* allocated to the entry the probe matched, and the bytes written to the
\* client are that entry's stored body, whatever the other workers insert
\* between the probe and the write.
C2_HitServesStoredBody ==
    \A t \in Threads :
       /\ (pc[t] = "doit_hit" /\ th[t].cached # NULL) =>
              /\ allocated[th[t].cached]
              /\ blk[th[t].cached].uri = th[t].uri
              /\ blk[th[t].cached].content = th[t].hitBody
       /\ (pc[t] = "close_conn" /\ th[t].outcome = "hit") =>
              th[t].sent = th[t].hitBody

\* ---- C3 ---------------------------------------------------------------------
\* C3: at most one cache_insert is inside its critical section, and none is
\* while a cache_find holds the reader side of the lock.
C3_ReadersWriterExclusion ==
    /\ Cardinality(Writers) <= 1
    /\ Writers # {} => Readers = {}
    /\ readcnt >= Cardinality(Readers)
    /\ w \in {0, 1}

\* a writer is inside while a first reader waits on cache.w holding cache.mutex
C3_Witness ==
    /\ Writers # {}
    /\ \E t \in Threads : pc[t] = "cf_pw"
    /\ cache_mutex = 0

\* two traversals overlap
C3_ReadersOverlap == \E t1, t2 \in Threads : t1 # t2 /\ pc[t1] = "cf_scan" /\ pc[t2] = "cf_scan"

\* ---- C4 ---------------------------------------------------------------------
\* C4: the descriptors returned by sbuf_remove, in the order the removals
\* take effect, are a prefix of the descriptors passed to sbuf_insert, and no
\* descriptor is held by two workers.
C4_Fifo ==
    /\ Len(removed) <= Len(inserted)
    /\ \A i \in 1 .. Len(removed) : removed[i] = inserted[i]
    /\ \A t1, t2 \in Threads :
          (t1 # t2 /\ th[t1].connfd # 0) => th[t1].connfd # th[t2].connfd

\* more descriptors than the buffer has slots went through it
C4_Witness == Len(removed) > SBUFSIZE

\* ---- C5 ---------------------------------------------------------------------
\* C5: the buffer holds between 0 and SBUFSIZE descriptors; the write of
\* sbuf_insert lands on a slot whose descriptor was removed, the read of
\* sbuf_remove on a slot written since its last removal; with SBUFSIZE
\* descriptors buffered slots is 0 (sbuf_insert blocks) and with none items is
\* 0 (sbuf_remove blocks).
Buffered == rear - front
C5_Bounded ==
    /\ Buffered \in 0 .. SBUFSIZE
    /\ Cardinality({i \in 0 .. (SBUFSIZE - 1) : full[i]}) = Buffered
    /\ slots \in 0 .. SBUFSIZE /\ items \in 0 .. SBUFSIZE
    /\ mpc = "si_write" => ~full[RearSlot]
    /\ \A t \in Threads : pc[t] = "sr_read" => full[FrontSlot]
    /\ Buffered = SBUFSIZE => slots = 0
    /\ Buffered = 0 => items = 0

\* the buffer is full and main waits in P(&sp->slots)
C5_Witness == mpc = "si_slots" /\ slots = 0 /\ Buffered = SBUFSIZE

\* ---- C6 ---------------------------------------------------------------------
\* C6: whenever no cache_insert is inside its critical section the cache list
\* is a well-formed doubly linked list: next and prev agree, the walk from
\* head has no repeat and ends at tail, head.prev and tail.next are NULL, head
\* is NULL iff tail is, and the walk meets exactly the live entries.
NoRepeat(q) == \A i, j \in 1 .. Len(q) : i # j => q[i] # q[j]
WellFormed ==
    LET q == ListSeq
        live == Live
    IN /\ (head = NULL) <=> (tail = NULL)
       /\ head # NULL => blk[head].prev = NULL /\ blk[tail].next = NULL
       /\ Len(q) <= MaxConn
       /\ NoRepeat(q)
       /\ q # <<>> => q[Len(q)] = tail
       /\ \A a, b \in live : (blk[a].next = b) <=> (blk[b].prev = a)
       /\ {q[i] : i \in 1 .. Len(q)} = live
C6_ListWellFormed == Writers = {} => WellFormed

\* an insert that evicted one entry and left another has returned
C6_Witness == Writers = {} /\ SomeEvicted /\ Len(ListSeq) >= 2

\* ---- C7 ---------------------------------------------------------------------
\* C7 as stated: no two entries linked in the cache list have equal uri.
C7_NoDuplicateUri ==
    \A a, b \in Linked : a # b => blk[a].uri # blk[b].uri

\* C7 amended: entries with equal uri can be linked together (cache_insert
\* never looks for an older entry of its uri), but never more than NTHREADS
\* of them, because a handler inserts a uri only after its own probe missed.
C7_DuplicatesBounded ==
    LET linked == Linked IN
    \A u \in Uris : Cardinality({a \in linked : blk[a].uri = u}) <= NTHREADS

\* two linked entries with the same uri, both inserts returned
C7_Witness ==
    /\ Writers = {}
    /\ \E a, b \in Linked : a # b /\ blk[a].uri = blk[b].uri

\* ---- C8 ---------------------------------------------------------------------
\* C8: the handler calls cache_insert for a fetched response if and only if
\* the origin sent at most MAX_OBJECT_SIZE bytes in total.
C8_AdmitIffWhole ==
    \A t \in Threads :
       (pc[t] \in {"ci_pw", "ci_loop"}
          \/ (pc[t] = "close_conn" /\ th[t].outcome = "fetched"))
       => (th[t].called <=> ~th[t].oversize)

\* ---- C9 ---------------------------------------------------------------------
\* C9: a block released by cache_insert is, when released, the tail and the
\* least recently inserted linked entry, and the incoming entry did not fit
\* with it present; the new entry is linked only once it fits or the list is
\* empty.
IsOldest(a) == order # <<>> /\ order[1] = a
Incoming == {th[t].cache_size : t \in {x \in Threads : pc[x] = "ci_loop"}}
InFind(t) == pc[t] \in {"cf_lock", "cf_pw", "cf_scan", "cf_unlock"}
Linking(t) == pc[t] = "ci_loop" /\ pc'[t] = "close_conn"
\* the probe for u returns the most recently inserted of the live entries with
\* uri u, and misses when there is none
FindsNewest(u) ==
    LET same == {i \in 1 .. Len(order) : blk[order[i]].uri = u} IN
    IF same = {} THEN Find(u) = NULL
    ELSE Find(u) = order[CHOOSE i \in same : \A j \in same : j <= i]
\* C11: when cache_insert(u, B2, n2) returns while an entry for u inserted
\* earlier is still linked, the probe for u returns the block just linked,
\* whose body is B2; and at any time with no insert inside its critical
\* section the probe for u returns the most recently inserted live entry for
\* u, so the older entry never shadows the newer.
C11_ReinsertSupersedes ==
    /\ [][\A t \in Threads, u \in Uris :
             (Linking(t) /\ th[t].uri = u /\ Find(u) # NULL) =>
                 LET b == Find(u)' IN
                    /\ b # NULL
                    /\ ~allocated[b] /\ allocated'[b]
                    /\ blk'[b].content = th[t].cache_buf
                    /\ blk'[b].content_size = th[t].cache_size]_vars
    /\ [](Writers = {} => \A u \in Uris : FindsNewest(u))

\* a probe has returned the newer of two linked entries with its uri, and the
\* two bodies differ
C11_Witness ==
    \E t \in Threads, a \in Addr :
       /\ pc[t] = "doit_hit"
       /\ th[t].cached # NULL
       /\ th[t].cached = head
       /\ a \in Linked /\ a # head
       /\ blk[a].uri = blk[head].uri
       /\ blk[a].content # blk[head].content
       /\ th[t].hitBody = blk[head].content

\* ---- C12 --------------------------------------------------------------------
\* C12: in the state in which cache_insert(u, B, n) with n <= MAX_OBJECT_SIZE
\* returns, the scan of cache_find(u) yields a live entry whose content is B
\* and whose content_size is n.
C12_InsertThenFind ==
    [][\A t \in Threads, u \in Uris :
          (Linking(t) /\ th[t].uri = u) =>
              LET b == Find(u)' IN
                 /\ b # NULL
                 /\ allocated'[b]
                 /\ blk'[b].uri = u
                 /\ blk'[b].content = th[t].cache_buf
                 /\ blk'[b].content_size = th[t].cache_size
                 /\ blk'[b].content_size = SumSeq(blk'[b].content)]_vars

\* an insert of MAX_OBJECT_SIZE bytes has returned after evicting every entry
\* there was
C12_Witness ==
    \E t \in Callers :
       /\ pc[t] = "close_conn" /\ th[t].outcome = "fetched"
       /\ SomeEvicted
       /\ Len(ListSeq) = 1
       /\ blk[head].content_size = MAX_OBJECT_SIZE

\* an insert of no bytes has returned
C12_EmptyBody ==
    \E t \in Callers :
       /\ pc[t] = "close_conn" /\ th[t].outcome = "fetched"
       /\ head # NULL /\ blk[head].content = <<>>

\* ---- C13 --------------------------------------------------------------------
\* C13: a cache_insert whose content_size is above MAX_OBJECT_SIZE returns in
\* its first step and changes nothing of the cache: not the list, not
\* current_size, not a block, not the semaphores; a probe that missed before
\* misses after. No cache_insert with such a size gets to P(&cache.w).
C13_OversizeInsertIsNoOp ==
    /\ [][\A t \in Threads :
             (pc[t] = "call" /\ pc'[t] # "call"
                /\ (th'[t].oversize \/ th'[t].cache_size > MAX_OBJECT_SIZE))
             => /\ pc'[t] = "close_conn"
                /\ th'[t].outcome = "ignored"
                /\ UNCHANGED <<head, tail, current_size, blk, allocated>>
                /\ UNCHANGED <<cache_mutex, w, readcnt>>
                /\ \A u \in Uris : Find(u)' = Find(u)]_vars
    /\ [](\A t \in Threads :
             pc[t] \in {"ci_pw", "ci_loop"} => th[t].cache_size <= MAX_OBJECT_SIZE)

\* an oversize insert has returned with entries in the cache
C13_Witness ==
    \E t \in Callers :
       /\ pc[t] = "close_conn" /\ th[t].outcome = "ignored"
       /\ head # NULL
       /\ \E u \in Uris : Find(u) = NULL

\* ---- C14 --------------------------------------------------------------------
\* C14: every entry linked in the cache list has content_size at most
\* MAX_OBJECT_SIZE, whatever lengths cache_insert was called with.
C14_EntriesWithinObjectSize ==
    \A a \in Linked : blk[a].content_size <= MAX_OBJECT_SIZE

\* an oversize insert has returned and an entry of exactly MAX_OBJECT_SIZE
\* bytes is linked
C14_Witness ==
    /\ \E t \in Callers : pc[t] = "close_conn" /\ th[t].outcome = "ignored"
    /\ \E a \in Linked : blk[a].content_size = MAX_OBJECT_SIZE

\* ---- C15 --------------------------------------------------------------------
\* C15: a handler whose request has a method other than GET (in any case) is
\* only ever found returned with the 501 page written: it is at no step of
\* cache_find or cache_insert, holds no cache entry and no origin descriptor,
\* and has not called cache_insert.
C15_MethodGate ==
    \A t \in Threads :
       (th[t].method # NoMethod /\ Lower(th[t].method) # "get") =>
           /\ pc[t] = "close_conn"
           /\ th[t].outcome = "501"
           /\ th[t].sent = ErrorPage(501)
           /\ th[t].block = NULL /\ th[t].cached = NULL
           /\ th[t].serverfd = 0
           /\ ~th[t].called

\* a POST was answered with 501 while the cache held an entry for every uri
C15_Witness ==
    \E t \in Threads :
       /\ pc[t] = "close_conn"
       /\ th[t].method = "POST"
       /\ th[t].outcome = "501"
       /\ \A u \in Uris : Find(u) # NULL

\* ---- C16 --------------------------------------------------------------------
\* the parties that own client descriptor fd: main between Accept and the
\* write into the buffer, the buffer slots that hold it, the workers that
\* hold it between sbuf_remove and Close
AtMain(fd) == mpc \in {"si_slots", "si_write"} /\ mconnfd = fd
SlotsHolding(fd) == {i \in 0 .. (SBUFSIZE - 1) : full[i] /\ buf[i] = fd}
WorkersHolding(fd) == {t \in Threads : th[t].connfd = fd}
Owners(fd) ==
    (IF AtMain(fd) THEN 1 ELSE 0) + Cardinality(SlotsHolding(fd))
        + Cardinality(WorkersHolding(fd))
\* C16: every accepted client descriptor is either owned by exactly one party
\* (main, then one buffer slot, then one worker) and not closed, or owned by
\* none and closed exactly once; Close is called on nothing else; and a
\* handler that has returned, on any path, holds no open origin descriptor.
C16_DescriptorOwnership ==
    /\ \A fd \in 1 .. MaxConn :
          IF fd <= accepted
          THEN Owners(fd) + closes[fd] = 1
          ELSE Owners(fd) = 0 /\ closes[fd] = 0
    /\ closes[0] = 0
    /\ \A t \in Threads :
          /\ pc[t] \in {"sr_items", "sr_read"} => th[t].connfd = 0
          /\ pc[t] \in {"sr_items", "sr_read", "sr_slots", "close_conn"}
                => th[t].serverfd = 0

\* every descriptor has gone through the buffer and been closed, the last one
\* after a fetch
C16_Witness ==
    /\ \A fd \in 1 .. MaxConn : closes[fd] = 1
    /\ head # NULL

\* ---- C17 --------------------------------------------------------------------
\* C17: at every point of the streaming loop of a fetch the chunks written to
\* the client are the lines read from the origin, in the order read, whether
\* or not they were staged.
C17_ForwardsEveryLine ==
    \A t \in Threads : pc[t] = "doit_stream" => th[t].sent = th[t].rcvd

\* MaxLines lines were read and forwarded, the last of them not staged
C17_Witness ==
    \E t \in Threads :
       /\ pc[t] = "doit_stream"
       /\ Len(th[t].rcvd) = MaxLines
       /\ th[t].sent = th[t].rcvd
       /\ SumSeq(th[t].rcvd) > MAX_OBJECT_SIZE
       /\ th[t].cache_size < SumSeq(th[t].rcvd)

\* ---- C19 --------------------------------------------------------------------
\* q is a prefix of r
IsPrefix(q, r) == Len(q) <= Len(r) /\ \A i \in 1 .. Len(q) : q[i] = r[i]
\* C19: at every point of the streaming loop the staging buffer is a prefix
\* of what has been forwarded to the client: once a line was not staged, no
\* later line of the response is.
C19_StagedIsPrefix ==
    \A t \in Threads :
       pc[t] = "doit_stream" => IsPrefix(th[t].cache_buf, th[t].sent)

\* ---- C18 --------------------------------------------------------------------
\* what the uri is after the optional scheme prefix, and where its first ':'
\* and first '/' are
Remainder(t) == HostBegin(th[t].uri)
FirstColon(t) == Strstr(Remainder(t), ":")
FirstSlash(t) == Strstr(Remainder(t), "/")
ColonBeforeSlash(t) ==
    FirstColon(t) # 0 /\ (FirstSlash(t) = 0 \/ FirstColon(t) < FirstSlash(t))
\* the characters between the first ':' and the first '/' (or the end)
PortText(t) ==
    SubSeq(Remainder(t), FirstColon(t) + 1,
           IF FirstSlash(t) = 0 THEN Len(Remainder(t)) ELSE FirstSlash(t) - 1)
\* host[:port][/path] with a host that is not empty and a port, when there is
\* one, made of digits
WellFormedUri(t) ==
    /\ Remainder(t) # <<>>
    /\ Remainder(t)[1] \notin {":", "/"}
    /\ ColonBeforeSlash(t) =>
          /\ PortText(t) # <<>>
          /\ \A i \in 1 .. Len(PortText(t)) : IsDigit(PortText(t)[i])
\* C18: for every well-formed uri, parse_uri splits host and port only on a
\* ':' before the first '/': without one, hostname is what precedes the first
\* '/' (all of it when there is no '/'), port is 80 and pathname starts at the
\* first '/' (or is "/"), also when the path contains ':'; with one, hostname
\* is what precedes the ':' and port the number after it.
C18_ParseUri ==
    \A t \in Callers :
       (pc[t] = "parsed" /\ WellFormedUri(t)) =>
           IF ColonBeforeSlash(t)
           THEN /\ th[t].hostname = SubSeq(Remainder(t), 1, FirstColon(t) - 1)
                /\ th[t].port = Atoi(PortText(t))
           ELSE /\ th[t].hostname =
                      IF FirstSlash(t) = 0 THEN Remainder(t)
                      ELSE SubSeq(Remainder(t), 1, FirstSlash(t) - 1)
                /\ th[t].port = 80
                /\ th[t].pathname =
                      IF FirstSlash(t) = 0 THEN <<"/">>
                      ELSE From(Remainder(t), FirstSlash(t))

\* ---- progress ------------------------------------------------------------------
\* everyone idle: main is in Accept and every worker waits for a descriptor
Idle == mpc = "accept" /\ \A t \in Workers : pc[t] = "sr_items"

\* some thread can get past the semaphore it is at
SomeoneRuns ==
    \/ ENABLED (SbufInsertSlots \/ SteadyInsertWrite \/ SteadyInsertItems)
    \/ \E t \in Workers : ENABLED WorkerStep(t)

\* Below, []<>~P says that P does not go on for ever: what has begun, ends.

\* no slot of the buffer stays full: the descriptor written to it is taken out
Dequeued == \A i \in 0 .. (SBUFSIZE - 1) : []<>(~full[i])

\* no worker stays inside cache_find: a cache_find that was called returns
FindReturns == \A t \in Workers : []<>(~InFind(t))

\* worker t is at P(&cache.w) of cache_insert
WaitsToWrite(t) == pc[t] = "ci_pw"

\* worker t is inside cache_insert, before or after P(&cache.w)
InInsert(t) == pc[t] \in {"ci_pw", "ci_loop"}

\* no worker stays inside cache_insert: a cache_insert that was called returns
InsertReturns == \A t \in Workers : []<>(~InInsert(t))

\* no worker stays between P(&cache.w) and V(&cache.w) of cache_insert: a
\* cache_insert that got the lock returns
InsertFinishes == \A t \in Workers : []<>(pc[t] # "ci_loop")

\* worker t is back in sbuf_remove, at P(&sp->items): its handler has
\* returned and it has closed the descriptor
Closed(t) == pc[t] = "sr_items"

\* whatever a worker has begun, it completes: the handler returns and the
\* descriptor is closed
Completes == \A t \in Workers : []<>Closed(t)

\* the same, but for cache_insert at P(&cache.w): a worker gets to the end of
\* its handler and closes the descriptor, or it gets to P(&cache.w)
CompletesOrWaitsToWrite ==
    \A t \in Workers : []<>(Closed(t) \/ WaitsToWrite(t))

\* C20, as stated: under fair scheduling no thread is stuck for good on a
\* semaphore of the queue or of the cache: every descriptor put into the
\* buffer is taken out, every cache_find and every cache_insert that was
\* called returns, every handler completes and its descriptor is closed.
C20_Progress ==
    /\ [](Idle \/ SomeoneRuns)
    /\ Dequeued
    /\ FindReturns
    /\ InsertReturns
    /\ Completes

\* C20, as the code has it: under fair scheduling the threads never all wait
\* on semaphores, every descriptor put into the buffer is taken out, every
\* cache_find returns, a cache_insert that got past P(&cache.w) returns, and a
\* handler completes and its descriptor is closed unless the handler gets to
\* P(&cache.w) of cache_insert. (Of a cache_insert waiting there nothing is
\* promised: readers go first.)
C20_ProgressButForWaitingWriters ==
    /\ [](Idle \/ SomeoneRuns)
    /\ Dequeued
    /\ FindReturns
    /\ InsertFinishes
    /\ CompletesOrWaitsToWrite

\* a cache_insert waits at P(&cache.w) while the cache_find calls of two
\* other workers overlap
C20_Witness ==
    \E t \in Workers :
        /\ pc[t] = "ci_pw"
        /\ w = 0
        /\ readcnt = 2
        /\ \A o \in Workers \ {t} : pc[o] \in {"cf_scan", "cf_unlock"}

====
